---- MODULE Spec2Model ----
(***************************************************************************)
(* Git Merge Toolkit: the branch resolver (git_manager.py) and the merge   *)
(* workflow driven by the Tk front end (gui/gui.py).                        *)
(*                                                                         *)
(* Text is modelled as a sequence of tokens.  A token is a literal piece   *)
(* of text that the program never splits: "origin/", "remotes/", "* ",     *)
(* the indentation of a listing line, and the pieces of branch names and   *)
(* task identifiers.  Substring search, str.replace and the regular        *)
(* expressions of git_manager.py are computed on these sequences.          *)
(*                                                                         *)
(* The repository is abstracted to: the local refs, the remote-tracking    *)
(* refs, the set of branches whose tip is an ancestor of HEAD, the branch  *)
(* of an unfinished merge (MERGE_HEAD) and the branch HEAD points to (none *)
(* when HEAD is detached).  A branch has one tip: its local ref and its    *)
(* remote-tracking ref point at the same commit.                           *)
(***************************************************************************)
EXTENDS Integers, Sequences, FiniteSets, TLC

\* ------------------------------------------------------------------ bounds
\* Number of times the operator attaches a PDF in one session.
MaxPdfSelections == 2

\* Longest required_branches.txt, in lines, that remove_branch_from_required
\* is applied to.
MaxFileLines == 3

\* ------------------------------------------------------------------ text
None == <<>>

ORIGIN == "origin/"
REMOTES == "remotes/"
STAR == "* "
INDENT == "  "
ARROW == " -> "

\* Branch names of the repository, without remote prefix.
MAIN == <<"main">>
F1 == <<"f-", "P3-1">>
F10 == <<"f-", "P3-1", "0">>
\* A branch that was pushed under the name "origin/P3-2".
ODD == <<ORIGIN, "P3-2">>

Branches == {F1, F10, ODD}

\* Task identifiers as pdf_selection.extract_task_ids finds them (P3-\d+).
T1 == <<"P3-1">>
T10 == <<"P3-1", "0">>
T2 == <<"P3-2">>
\* A task that has no branch.
T3 == <<"P3-3">>

\* The task identifiers of the PDFs at hand, each as extract_task_ids
\* returns it: sorted(list(task_ids)).
PdfTaskIds == {<<T1, T10>>, <<T10, T2, T3>>}

\* pat occurs in s at position i.
OccursAt(s, pat, i) ==
  /\ i >= 1
  /\ i + Len(pat) - 1 <= Len(s)
  /\ \A k \in 1..Len(pat) : s[i + k - 1] = pat[k]

\* Python: pat in s
Contains(s, pat) == \E i \in 1..(Len(s) + 1) : OccursAt(s, pat, i)

\* Python: s.replace(pat, ''), leftmost non-overlapping occurrences.
RECURSIVE Replace(_, _)
Replace(s, pat) ==
  IF s = <<>> THEN <<>>
  ELSE IF OccursAt(s, pat, 1)
       THEN Replace(SubSeq(s, Len(pat) + 1, Len(s)), pat)
       ELSE <<Head(s)>> \o Replace(Tail(s), pat)

\* Python: s.strip() -- the only white space of a listing line is its
\* indentation.
RECURSIVE Strip(_)
Strip(s) ==
  IF s = <<>> THEN <<>>
  ELSE IF Head(s) = INDENT THEN Strip(Tail(s))
  ELSE IF s[Len(s)] = INDENT THEN Strip(SubSeq(s, 1, Len(s) - 1))
  ELSE s

\* The elements of a sequence, as a set.
Range(s) == { s[i] : i \in 1..Len(s) }

\* Concatenation of a sequence of sequences.
RECURSIVE Flatten(_)
Flatten(ss) == IF ss = <<>> THEN <<>> ELSE Head(ss) \o Flatten(Tail(ss))

\* The sequences that list every element of a finite set exactly once.
Orderings(S) ==
  { s \in [1..Cardinality(S) -> S] : \A i, j \in 1..Cardinality(S) : s[i] = s[j] => i = j }

\* git lists branches in a fixed (sorted) order.
BranchOrder == <<F1, F10, MAIN, ODD>>

\* The members of S in git's listing order.
Listed(S) == SelectSeq(BranchOrder, LAMBDA b : b \in S)

\* Seq map.
MapSeq(s, Op(_)) == [i \in 1..Len(s) |-> Op(s[i])]

VARIABLES
  git_manager,             \* gui.git_manager is set (a repository is attached)
  pdf_file,                \* pdf_selection.pdf_file is set
  pdf_selections,          \* number of PDFs attached so far
  buttons,                 \* state of the four action buttons, TRUE = tk.NORMAL
  has_conflict_attrs,      \* conflict_occurred/current_conflict_branch were ever assigned
  conflict_occurred,       \* gui.conflict_occurred
  current_conflict_branch, \* gui.current_conflict_branch, None or a branch name
  task_ids_txt,            \* task_ids.txt: [exists, lines]
  required_branches_txt,   \* required_branches.txt: [exists, lines]
  repo,                    \* the repository: [refs_heads, refs_remotes, merged, MERGE_HEAD, HEAD]
  check_worker,            \* the thread running _check_branches
  merge_worker,            \* the thread running _merge_branches
  push_worker,             \* the thread running _push_changes
  finalizer,               \* complete_resolve/_finalize_merge on the Tk main thread
  last                     \* the last step: [by, cmds, reports], cmds = git commands in order

vars == <<git_manager, pdf_file, pdf_selections, buttons, has_conflict_attrs,
          conflict_occurred, current_conflict_branch, task_ids_txt,
          required_branches_txt, repo, check_worker, merge_worker, push_worker,
          finalizer, last>>

gui_vars == <<git_manager, pdf_file, pdf_selections, buttons>>
conflict_vars == <<has_conflict_attrs, conflict_occurred, current_conflict_branch>>

\* ------------------------------------------------------------ repository
\* One git command as the log of a step shows it.
Cmd(by, op, ref, ok) == [by |-> by, op |-> op, ref |-> ref, ok |-> ok]

\* The branch a ref name resolves to (git's refs/heads/<n>, then
\* refs/remotes/<n>), None when it does not resolve.
ResolveRef(r, ref) ==
  IF ref \in r.refs_heads THEN ref
  ELSE IF ref # <<>> /\ Head(ref) = ORIGIN /\ Tail(ref) \in r.refs_remotes THEN Tail(ref)
  ELSE None

\* git show-ref --verify --quiet refs/heads/<b>
show_ref_heads(r, b) == b \in r.refs_heads

\* git show-ref --verify --quiet refs/remotes/origin/<b>
show_ref_remotes(r, b) == b \in r.refs_remotes

\* Output of 'git branch -r', one line per element.
branch_r_output(r) ==
  <<  <<INDENT, ORIGIN, "HEAD", ARROW, ORIGIN>> \o MAIN  >>
    \o MapSeq(Listed(r.refs_remotes), LAMBDA b : <<INDENT, ORIGIN>> \o b)

\* Output of 'git branch --all --merged', one line per element.
branch_all_merged_output(r) ==
  (IF r.HEAD = None THEN <<  <<STAR, "(HEAD detached at ", "1a2b3c4", ")">>  >> ELSE <<>>)
    \o MapSeq(Listed(r.refs_heads \cap r.merged),
              LAMBDA b : (IF b = r.HEAD THEN <<STAR>> ELSE <<INDENT>>) \o b)
    \o <<  <<INDENT, REMOTES, ORIGIN, "HEAD", ARROW, ORIGIN>> \o MAIN  >>
    \o MapSeq(Listed(r.refs_remotes \cap r.merged),
              LAMBDA b : <<INDENT, REMOTES, ORIGIN>> \o b)

\* ------------------------------------------------------------ GitManager
\* get_merged_branches: the set of the normalised lines of the listing.
get_merged_branches(r) ==
  { Strip(Replace(Replace(Strip(l), <<REMOTES, ORIGIN>>), <<STAR>>)) :
      l \in { m \in Range(branch_all_merged_output(r)) : Strip(m) # <<>> } }

\* re.findall(r'origin/.*', line): from the first "origin/" to the end of
\* the line; <<>> when the line has none.
FirstOrigin(l) ==
  IF \E p \in 1..Len(l) : l[p] = ORIGIN
  THEN LET p == CHOOSE q \in 1..Len(l) : l[q] = ORIGIN /\ \A k \in 1..(q - 1) : l[k] # ORIGIN
       IN SubSeq(l, p, Len(l))
  ELSE <<>>

\* get_remote_branches
get_remote_branches(r) ==
  SelectSeq(MapSeq(branch_r_output(r), FirstOrigin), LAMBDA m : m # <<>>)

\* re.findall(r'origin/.*' + re.escape(task_id) + r'.*', line): the match
\* starts at the leftmost "origin/" that has task_id somewhere after it.
MatchTask(l, task_id) ==
  LET starts == { p \in 1..Len(l) :
                    l[p] = ORIGIN /\ Contains(SubSeq(l, p + 1, Len(l)), task_id) }
  IN IF starts = {} THEN <<>>
     ELSE LET p == CHOOSE q \in starts : \A k \in starts : q <= k
          IN SubSeq(l, p, Len(l))

\* matching_branches of get_matching_branches for one task identifier.
matching_branches(remote_branches, task_id) ==
  SelectSeq(MapSeq(remote_branches, LAMBDA l : MatchTask(l, task_id)), LAMBDA m : m # <<>>)

\* branch.strip().replace('origin/', '')
NormalizeMatch(m) == Replace(Strip(m), <<ORIGIN>>)

\* is_branch_merged with the exit status compared with 1 ("not an ancestor")
\* instead of 0.
is_branch_merged_status_one(r, target_branch, current_branch) ==
  /\ ResolveRef(r, target_branch) # None
  /\ (current_branch = <<"HEAD">> \/ ResolveRef(r, current_branch) # None)
  /\ ResolveRef(r, target_branch) \notin r.merged

\* is_branch_merged: exit status 0 of git merge-base --is-ancestor.
is_branch_merged(r, target_branch, current_branch) ==
  /\ ResolveRef(r, target_branch) # None
  /\ (current_branch = <<"HEAD">> \/ ResolveRef(r, current_branch) # None)
  /\ ResolveRef(r, target_branch) \in r.merged

\* What git can answer to 'git merge --no-ff <ref>' on a ref that is not yet
\* merged, when no merge is in progress.
MergeAnswers == {"clean", "conflict", "refused"}

\* merge_branch: [ok, repo] after git merge --no-ff target_branch.
merge_branch(r, target_branch, answer) ==
  IF r.MERGE_HEAD # None THEN [ok |-> FALSE, repo |-> r]
  ELSE IF ResolveRef(r, target_branch) = None THEN [ok |-> FALSE, repo |-> r]
  ELSE IF ResolveRef(r, target_branch) \in r.merged THEN [ok |-> TRUE, repo |-> r]
  ELSE IF answer = "clean"
       THEN [ok |-> TRUE,
             repo |-> [r EXCEPT !.merged = @ \cup {ResolveRef(r, target_branch)}]]
  ELSE IF answer = "conflict"
       THEN [ok |-> FALSE, repo |-> [r EXCEPT !.MERGE_HEAD = ResolveRef(r, target_branch)]]
  ELSE [ok |-> FALSE, repo |-> r]

\* The commit message with the remote prefix taken off the merged ref.
merge_message_bare_name(target_branch, current_branch) ==
  <<"Merge branch '">>
    \o (IF target_branch # <<>> /\ Head(target_branch) = ORIGIN
        THEN Tail(target_branch) ELSE target_branch)
    \o <<"' into '">> \o current_branch \o <<"'">>

\* The commit message merge_branch passes with -m (git_manager.py 103).
merge_message(target_branch, current_branch) ==
  <<"Merge branch '">> \o target_branch \o <<"' into '">> \o current_branch \o <<"'">>

\* The command line of merge_branch:
\* git merge --no-ff <target_branch> -m <message>
MergeCmd(by, target_branch, current_branch, ok) ==
  [by |-> by, op |-> "merge", ref |-> target_branch, ok |-> ok,
   no_ff |-> TRUE, msg |-> merge_message(target_branch, current_branch)]

\* fetch_specific_branch: git fetch origin <b>:<b>.
fetch_specific_branch(r, branch, ok) ==
  IF ok THEN [r EXCEPT !.refs_heads = @ \cup {branch}] ELSE r

\* commit_merge: a successful commit concludes the merge in progress.
commit_merge(r, ok) ==
  IF ok /\ r.MERGE_HEAD # None
  THEN [r EXCEPT !.merged = @ \cup {r.MERGE_HEAD}, !.MERGE_HEAD = None]
  ELSE r

\* abort_merge: [ok, repo] after git merge --abort.
abort_merge(r) ==
  IF r.MERGE_HEAD # None
  THEN [ok |-> TRUE, repo |-> [r EXCEPT !.MERGE_HEAD = None]]
  ELSE [ok |-> FALSE, repo |-> r]

\* get_current_branch: the output of 'git rev-parse --abbrev-ref HEAD',
\* which is the branch name, and the word HEAD when HEAD is detached.
get_current_branch(r) == IF r.HEAD = None THEN <<"HEAD">> ELSE r.HEAD

\* ------------------------------------------------------------ bookkeeping
Step(by, cmds, reports) == [by |-> by, cmds |-> cmds, reports |-> reports]

\* The operations of the last step's commands.
Ops(l) == { l.cmds[i].op : i \in 1..Len(l.cmds) }

AllDisabled ==
  [check_branches |-> FALSE, merge |-> FALSE, complete_resolve |-> FALSE,
   push_changes |-> FALSE]

\* Locals of an orchestration run (_merge_branches or _finalize_merge).
\* conflicted lists the branches whose merge command failed in this run;
\* resolved is the branch whose conflict was committed right before the run
\* (None for a run started with 'Merge').
IdleRun ==
  [pc |-> "idle", required |-> <<>>, idx |-> 0, already_merged |-> <<>>,
   merged_now |-> <<>>, failed_merges |-> <<>>, conflicted |-> <<>>,
   resolved |-> None]

\* Locals of _check_branches / get_matching_branches.  seen collects the
\* results of the get_merged_branches calls of the running scan.
IdleCheck ==
  [pc |-> "idle", task_ids |-> <<>>, remote_branches |-> <<>>, todo |-> <<>>,
   pos |-> 0, required |-> {}, task_branch_map |-> <<>>, seen |-> {}]

\* The Tk main thread is free to run a callback.
MainThreadFree == finalizer.pc = "idle"

\* ------------------------------------------------------------ front end
\* SourceSelectionFrame.select_source_code with a git repository chosen.
select_source_code ==
  /\ MainThreadFree
  /\ ~git_manager
  /\ git_manager' = TRUE
  /\ buttons' = IF pdf_file THEN [buttons EXCEPT !.check_branches = TRUE] ELSE buttons
  /\ last' = Step("select_source_code", <<>>, <<"info:Source code directory attached">>)
  /\ UNCHANGED <<pdf_file, pdf_selections, conflict_vars, task_ids_txt,
                 required_branches_txt, repo, check_worker, merge_worker,
                 push_worker, finalizer>>

\* PDFSelectionFrame.select_pdf with a readable PDF chosen.
select_pdf ==
  /\ MainThreadFree
  /\ pdf_selections < MaxPdfSelections
  /\ pdf_selections' = pdf_selections + 1
  /\ \E task_ids \in PdfTaskIds :
       IF ~git_manager
       THEN /\ last' = Step("select_pdf", <<>>,
                            <<"error:Please attach the source code directory first.">>)
            /\ UNCHANGED <<pdf_file, task_ids_txt, buttons>>
       ELSE /\ pdf_file' = TRUE
            /\ task_ids_txt' = [exists |-> TRUE, lines |-> task_ids]
            /\ buttons' = [buttons EXCEPT !.check_branches = TRUE]
            /\ last' = Step("select_pdf", <<>>, <<"info:Extracted task IDs">>)
  /\ UNCHANGED <<git_manager, conflict_vars, required_branches_txt, repo,
                 check_worker, merge_worker, push_worker, finalizer>>

\* ------------------------------------------------------------ branch check
\* The (task_id, match) pairs in the order get_matching_branches visits them.
ScanOrder(task_ids, remote_branches) ==
  Flatten(MapSeq(task_ids,
    LAMBDA t : MapSeq(matching_branches(remote_branches, t),
                      LAMBDA m : [task_id |-> t, branch |-> m])))

\* check_branches(from_resolve=False): the 'Check Branches' button.
check_branches ==
  /\ MainThreadFree
  /\ buttons.check_branches
  /\ check_worker.pc = "idle"
  /\ buttons' = AllDisabled
  /\ check_worker' = [IdleCheck EXCEPT !.pc = "start"]
  /\ last' = Step("check_branches", <<>>, <<>>)
  /\ UNCHANGED <<git_manager, pdf_file, pdf_selections, conflict_vars, task_ids_txt,
                 required_branches_txt, repo, merge_worker, push_worker, finalizer>>

\* _check_branches up to the first loop iteration of get_matching_branches.
\* Every way out of _check_branches ends in the finally clause, which
\* raises NameError (from_resolve) and re-enables nothing.
check_branches_start ==
  /\ check_worker.pc = "start"
  /\ IF ~git_manager
     THEN /\ check_worker' = IdleCheck
          /\ last' = Step("_check_branches", <<>>,
                          <<"log:Error: Source code directory not attached.">>)
     ELSE IF ~task_ids_txt.exists
     THEN /\ check_worker' = IdleCheck
          /\ last' = Step("_check_branches", <<>>, <<"log:Error: task_ids.txt not found">>)
     ELSE \E fetch_ok \in BOOLEAN :
       IF ~fetch_ok
       THEN /\ check_worker' = IdleCheck
            /\ last' = Step("_check_branches",
                            <<Cmd("_check_branches", "fetch --all", None, FALSE)>>,
                            <<"error:An error occurred during branch check">>)
       ELSE LET task_ids == task_ids_txt.lines
                remote_branches == get_remote_branches(repo)
                todo == ScanOrder(task_ids, remote_branches)
            IN /\ check_worker' =
                    [IdleCheck EXCEPT
                       !.pc = IF todo = <<>> THEN "write" ELSE "scan",
                       !.task_ids = task_ids,
                       !.remote_branches = remote_branches,
                       !.todo = todo,
                       !.pos = 1,
                       !.task_branch_map = [t \in Range(task_ids) |-> <<>>]]
               /\ last' = Step("_check_branches",
                               <<Cmd("_check_branches", "fetch --all", None, TRUE),
                                 Cmd("_check_branches", "branch -r", None, TRUE)>>, <<>>)
  /\ UNCHANGED <<gui_vars, conflict_vars, task_ids_txt, required_branches_txt, repo,
                 merge_worker, push_worker, finalizer>>

\* The body of the inner loop of get_matching_branches (git_manager.py
\* 203-208) for one match, on acc = [required, task_branch_map].
ScanItem(acc, item, merged_branches) ==
  LET branch == NormalizeMatch(item.branch)
  IN IF branch \notin merged_branches
     THEN [required |-> acc.required \cup {branch},
           task_branch_map |->
             [acc.task_branch_map EXCEPT ![item.task_id] = Append(@, branch)]]
     ELSE acc

\* One iteration of the inner loop of get_matching_branches: one match of
\* one task identifier, with its own call of get_merged_branches.
check_branches_scan ==
  /\ check_worker.pc = "scan"
  /\ LET item == check_worker.todo[check_worker.pos]
         merged_branches == get_merged_branches(repo)
         acc == ScanItem([required |-> check_worker.required,
                          task_branch_map |-> check_worker.task_branch_map],
                         item, merged_branches)
     IN check_worker' =
          [check_worker EXCEPT
             !.required = acc.required,
             !.task_branch_map = acc.task_branch_map,
             !.seen = @ \cup {merged_branches},
             !.pos = @ + 1,
             !.pc = IF check_worker.pos = Len(check_worker.todo) THEN "write" ELSE "scan"]
  /\ last' = Step("_check_branches",
                  <<Cmd("_check_branches", "branch --all --merged", None, TRUE)>>, <<>>)
  /\ UNCHANGED <<gui_vars, conflict_vars, task_ids_txt, required_branches_txt, repo,
                 merge_worker, push_worker, finalizer>>

\* write_required_branches opening the file for appending: the lines of
\* the earlier file stay in front of the new ones.
write_required_branches_append(required_branches, order) ==
  [exists |-> TRUE, lines |-> required_branches_txt.lines \o order]

\* write_required_branches: one line per member of the set, in the order
\* Python iterates the set.
write_required_branches(required_branches, order) ==
  [exists |-> TRUE, lines |-> order]

\* The rest of _check_branches: write the file, enable 'Merge' when there is
\* something to merge (disable_merge and status_label do not exist: both
\* raise, and the handler only logs).
check_branches_write ==
  /\ check_worker.pc = "write"
  /\ \E order \in Orderings(check_worker.required) :
       required_branches_txt' = write_required_branches(check_worker.required, order)
  /\ buttons' = IF check_worker.required # {} THEN [buttons EXCEPT !.merge = TRUE]
                ELSE buttons
  /\ check_worker' = IdleCheck
  /\ last' = Step("_check_branches", <<>>,
                  <<"info:Found required branches", "error:An error occurred during branch check">>)
  /\ UNCHANGED <<git_manager, pdf_file, pdf_selections, conflict_vars, task_ids_txt,
                 repo, merge_worker, push_worker, finalizer>>

\* ------------------------------------------------------------ orchestration
\* The existence check with branch_exists set although neither ref was
\* found.
BranchExists_unverified(by, r, branch, fetch_ok) ==
  IF show_ref_heads(r, branch)
  THEN [branch_exists |-> TRUE, local_branch |-> TRUE, repo |-> r,
        cmds |-> <<Cmd(by, "show-ref heads", branch, TRUE)>>]
  ELSE IF show_ref_remotes(r, branch)
  THEN [branch_exists |-> TRUE, local_branch |-> FALSE,
        repo |-> fetch_specific_branch(r, branch, fetch_ok),
        cmds |-> <<Cmd(by, "show-ref heads", branch, FALSE),
                   Cmd(by, "show-ref remotes", branch, TRUE),
                   Cmd(by, "fetch", branch, fetch_ok)>>]
  ELSE [branch_exists |-> TRUE, local_branch |-> FALSE, repo |-> r,
        cmds |-> <<Cmd(by, "show-ref heads", branch, FALSE),
                   Cmd(by, "show-ref remotes", branch, FALSE)>>]

\* The existence check of both loops (gui.py 240-259 and 406-425): local
\* ref first, else remote-tracking ref followed by a fetch whose failure is
\* swallowed.  [branch_exists, local_branch, repo, cmds]
BranchExists(by, r, branch, fetch_ok) ==
  IF show_ref_heads(r, branch)
  THEN [branch_exists |-> TRUE, local_branch |-> TRUE, repo |-> r,
        cmds |-> <<Cmd(by, "show-ref heads", branch, TRUE)>>]
  ELSE IF show_ref_remotes(r, branch)
  THEN [branch_exists |-> TRUE, local_branch |-> FALSE,
        repo |-> fetch_specific_branch(r, branch, fetch_ok),
        cmds |-> <<Cmd(by, "show-ref heads", branch, FALSE),
                   Cmd(by, "show-ref remotes", branch, TRUE),
                   Cmd(by, "fetch", branch, fetch_ok)>>]
  ELSE [branch_exists |-> FALSE, local_branch |-> FALSE, repo |-> r,
        cmds |-> <<Cmd(by, "show-ref heads", branch, FALSE),
                   Cmd(by, "show-ref remotes", branch, FALSE)>>]

\* One iteration of the loop of _merge_branches (gui.py 231-286).
\* outcome: "already_merged", "failed" (not found), "merged_now", "conflict".
MergeBody(r, branch, current_branch, fetch_ok, answer) ==
  LET by == "_merge_branches"
      anc == Cmd(by, "merge-base", branch, is_branch_merged(r, branch, current_branch))
  IN IF is_branch_merged(r, branch, current_branch)
     THEN [outcome |-> "already_merged", repo |-> r, cmds |-> <<anc>>]
     ELSE LET e == BranchExists(by, r, branch, fetch_ok)
              target_branch == IF e.local_branch THEN branch ELSE <<ORIGIN>> \o branch
              m == merge_branch(e.repo, target_branch, answer)
          IN IF ~e.branch_exists
             THEN [outcome |-> "failed", repo |-> e.repo, cmds |-> <<anc>> \o e.cmds]
             ELSE [outcome |-> IF m.ok THEN "merged_now" ELSE "conflict",
                   repo |-> m.repo,
                   cmds |-> <<anc>> \o e.cmds
                              \o <<MergeCmd(by, target_branch, current_branch, m.ok)>>]

\* One iteration of the loop of _finalize_merge (gui.py 404-453).
FinalizeBody(r, branch, current_branch, fetch_ok, answer) ==
  LET by == "_finalize_merge"
      e == BranchExists(by, r, branch, fetch_ok)
      target_branch == IF e.local_branch THEN branch ELSE branch
      is_ancestor == is_branch_merged(e.repo, target_branch, current_branch)
      anc == Cmd(by, "merge-base", target_branch, is_ancestor)
      m == merge_branch(e.repo, target_branch, answer)
  IN IF ~e.branch_exists
     THEN [outcome |-> "failed", repo |-> e.repo, cmds |-> e.cmds]
     ELSE IF is_ancestor
     THEN [outcome |-> "already_merged", repo |-> e.repo, cmds |-> e.cmds \o <<anc>>]
     ELSE [outcome |-> IF m.ok THEN "merged_now" ELSE "conflict",
           repo |-> m.repo,
           cmds |-> e.cmds \o <<anc, MergeCmd(by, target_branch, current_branch, m.ok)>>]

\* The lines of the file read from the last one to the first.
ReadLines_reversed(file) ==
  LET lines == SelectSeq(MapSeq(file.lines, Strip), LAMBDA l : l # <<>>)
  IN [i \in 1..Len(lines) |-> lines[Len(lines) + 1 - i]]

\* [line.strip() for line in f if line.strip()]
ReadLines(file) == SelectSeq(MapSeq(file.lines, Strip), LAMBDA l : l # <<>>)

\* merge_branches: the 'Merge' button.
merge_branches ==
  /\ MainThreadFree
  /\ buttons.merge
  /\ merge_worker.pc = "idle"
  /\ buttons' = AllDisabled
  /\ merge_worker' = [IdleRun EXCEPT !.pc = "start"]
  /\ last' = Step("merge_branches", <<>>, <<>>)
  /\ UNCHANGED <<git_manager, pdf_file, pdf_selections, conflict_vars, task_ids_txt,
                 required_branches_txt, repo, check_worker, push_worker, finalizer>>

\* The finally clause of _merge_branches (gui.py 315-317).
MergeFinally(b) ==
  IF ~has_conflict_attrs \/ ~conflict_occurred THEN [b EXCEPT !.merge = TRUE] ELSE b

\* _merge_branches up to the loop (gui.py 196-229).
merge_branches_start ==
  /\ merge_worker.pc = "start"
  /\ IF ~git_manager
     THEN /\ merge_worker' = IdleRun
          /\ buttons' = MergeFinally([buttons EXCEPT !.merge = TRUE])
          /\ last' = Step("_merge_branches", <<>>,
                          <<"error:Please attach the source code directory first.">>)
     ELSE IF ~required_branches_txt.exists
     THEN /\ merge_worker' = IdleRun
          /\ buttons' = MergeFinally([buttons EXCEPT !.merge = TRUE])
          /\ last' = Step("_merge_branches", <<>>,
                          <<"error:required_branches.txt not found">>)
     ELSE IF ReadLines(required_branches_txt) = <<>>
     THEN /\ merge_worker' = IdleRun
          /\ buttons' = MergeFinally([buttons EXCEPT !.merge = TRUE])
          /\ last' = Step("_merge_branches", <<>>, <<"info:No required branches to merge.">>)
     ELSE /\ merge_worker' = [IdleRun EXCEPT !.pc = "loop", !.idx = 1,
                                             !.required = ReadLines(required_branches_txt)]
          /\ buttons' = buttons
          /\ last' = Step("_merge_branches",
                          <<Cmd("_merge_branches", "rev-parse HEAD", None, TRUE)>>, <<>>)
  /\ UNCHANGED <<git_manager, pdf_file, pdf_selections, conflict_vars, task_ids_txt,
                 required_branches_txt, repo, check_worker, push_worker, finalizer>>

\* The handler of a failed merge in _merge_branches, with the summary shown
\* before it returns.
PauseReports_with_summary == <<"warning:Merge Conflict", "warning:Merge Summary">>

\* What the handler of a failed merge in _merge_branches shows before it
\* returns (gui.py 280-286): the conflict warning, and no summary.
PauseReports == <<"warning:Merge Conflict">>

\* The handler of a failed merge in _merge_branches cleaning up with
\* 'git merge --abort' before it returns.
PauseCommands_abort == <<"merge --abort">>

\* The git commands the handler of a failed merge in _merge_branches issues
\* before it returns (gui.py 272-286): none.
PauseCommands == <<>>

\* The body of the loop of _merge_branches for the next branch.  On a failed
\* merge the conflict state is set and the thread returns.
merge_branches_loop ==
  /\ merge_worker.pc = "loop"
  /\ \E fetch_ok \in BOOLEAN, answer \in MergeAnswers :
       LET branch == merge_worker.required[merge_worker.idx]
           b == MergeBody(repo, branch, get_current_branch(repo), fetch_ok, answer)
           more == merge_worker.idx < Len(merge_worker.required)
       IN /\ repo' = b.repo
          /\ IF b.outcome = "conflict"
             THEN /\ has_conflict_attrs' = TRUE
                  /\ conflict_occurred' = TRUE
                  /\ current_conflict_branch' = branch
                  /\ buttons' = [buttons EXCEPT !.complete_resolve = TRUE]
                  /\ merge_worker' = IdleRun
                  /\ last' = Step("_merge_branches",
                                  b.cmds \o [i \in 1..Len(PauseCommands) |->
                                               Cmd("_merge_branches", PauseCommands[i], None, TRUE)],
                                  PauseReports)
             ELSE /\ UNCHANGED <<conflict_vars, buttons>>
                  /\ merge_worker' =
                       [merge_worker EXCEPT
                          !.pc = IF more THEN "loop" ELSE "summary",
                          !.idx = @ + 1,
                          !.already_merged =
                             IF b.outcome = "already_merged" THEN Append(@, branch) ELSE @,
                          !.merged_now =
                             IF b.outcome = "merged_now" THEN Append(@, branch) ELSE @,
                          !.failed_merges =
                             IF b.outcome = "failed" THEN Append(@, branch) ELSE @]
                  /\ last' = Step("_merge_branches", b.cmds, <<>>)
  /\ UNCHANGED <<git_manager, pdf_file, pdf_selections, task_ids_txt,
                 required_branches_txt, check_worker, push_worker, finalizer>>

\* The summary of _merge_branches and its finally clause (gui.py 288-317).
merge_branches_summary ==
  /\ merge_worker.pc = "summary"
  /\ merge_worker' = IdleRun
  /\ buttons' = MergeFinally(IF merge_worker.failed_merges = <<>>
                             THEN [buttons EXCEPT !.push_changes = TRUE]
                             ELSE buttons)
  /\ last' = Step("_merge_branches", <<>>,
                  <<IF merge_worker.failed_merges = <<>> THEN "info:Merge Summary"
                    ELSE "warning:Merge Summary">>)
  /\ UNCHANGED <<git_manager, pdf_file, pdf_selections, conflict_vars, task_ids_txt,
                 required_branches_txt, repo, check_worker, push_worker, finalizer>>

\* ------------------------------------------------------------ finalizer
\* list.remove(x): drops the first occurrence.
RECURSIVE RemoveFirst(_, _)
RemoveFirst(s, x) ==
  IF s = <<>> THEN <<>>
  ELSE IF Head(s) = x THEN Tail(s)
  ELSE <<Head(s)>> \o RemoveFirst(Tail(s), x)

\* The list _finalize_merge iterates over (gui.py 384-402), given the value
\* current_conflict_branch has when _finalize_merge runs.
FinalizeRequired(file, conflict_branch) ==
  LET required_branches == ReadLines(file)
  IN IF conflict_branch # None /\ conflict_branch \in Range(required_branches)
     THEN RemoveFirst(required_branches, conflict_branch)
     ELSE required_branches

\* The test of complete_resolve when its early return (gui.py 328) is
\* missing: nothing stops the handler.
NoConflictToResolve_no_return == FALSE

\* The test of complete_resolve for "nothing to resolve" (gui.py 326).
NoConflictToResolve == ~conflict_occurred \/ current_conflict_branch = None

\* complete_resolve (gui.py 320-373) up to the loop of _finalize_merge,
\* which complete_resolve calls on the main thread after resetting the
\* conflict state.
CompleteResolveBody ==
  IF ~has_conflict_attrs
  THEN \* AttributeError in the try block and again in the handler
       /\ last' = Step("complete_resolve", <<>>,
                       <<"error:Failed to finalize merge after conflict resolution",
                         "raise:AttributeError">>)
       /\ UNCHANGED <<gui_vars, conflict_vars, task_ids_txt, required_branches_txt, repo,
                      check_worker, merge_worker, push_worker, finalizer>>
  ELSE IF NoConflictToResolve
  THEN /\ last' = Step("complete_resolve", <<>>, <<"info:No merge conflicts to resolve.">>)
       /\ UNCHANGED <<gui_vars, conflict_vars, task_ids_txt, required_branches_txt, repo,
                      check_worker, merge_worker, push_worker, finalizer>>
  ELSE \E add_ok \in BOOLEAN, commit_ok \in BOOLEAN :
    IF add_ok /\ commit_ok
    THEN LET reset_branch == None
             early == ~required_branches_txt.exists
                        \/ ReadLines(required_branches_txt) = <<>>
             required == FinalizeRequired(required_branches_txt, reset_branch)
         IN /\ repo' = commit_merge(repo, TRUE)
            /\ conflict_occurred' = FALSE
            /\ current_conflict_branch' = reset_branch
            /\ buttons' = [buttons EXCEPT !.complete_resolve = FALSE]
            /\ finalizer' =
                 IF early
                 THEN [IdleRun EXCEPT !.pc = "recheck",
                                      !.resolved = current_conflict_branch]
                 ELSE [IdleRun EXCEPT !.pc = IF required = <<>> THEN "summary" ELSE "loop",
                                      !.idx = 1, !.required = required,
                                      !.resolved = current_conflict_branch]
            /\ last' = Step("complete_resolve",
                            <<Cmd("complete_resolve", "add", None, TRUE),
                              Cmd("complete_resolve", "commit", None, TRUE)>>,
                            <<"info:Conflicts resolved and merged successfully">>)
            /\ UNCHANGED <<git_manager, pdf_file, pdf_selections, has_conflict_attrs,
                           task_ids_txt, required_branches_txt, check_worker,
                           merge_worker, push_worker>>
    ELSE LET a == abort_merge(repo)
         IN /\ repo' = a.repo
            /\ last' = Step("complete_resolve",
                            (IF add_ok
                             THEN <<Cmd("complete_resolve", "add", None, TRUE),
                                    Cmd("complete_resolve", "commit", None, FALSE)>>
                             ELSE <<Cmd("complete_resolve", "add", None, FALSE)>>)
                              \o <<Cmd("complete_resolve", "merge --abort", None, a.ok)>>,
                            <<"error:Failed to finalize merge after conflict resolution">>)
            /\ UNCHANGED <<gui_vars, conflict_vars, task_ids_txt, required_branches_txt,
                           check_worker, merge_worker, push_worker, finalizer>>

\* The 'Complete Resolve' button.
complete_resolve ==
  /\ MainThreadFree
  /\ buttons.complete_resolve
  /\ CompleteResolveBody

\* One iteration of the loop of _finalize_merge.  A failed merge is only
\* appended to failed_merges; the loop goes on.
finalize_merge_loop ==
  /\ finalizer.pc = "loop"
  /\ \E fetch_ok \in BOOLEAN, answer \in MergeAnswers :
       LET branch == finalizer.required[finalizer.idx]
           b == FinalizeBody(repo, branch, get_current_branch(repo), fetch_ok, answer)
           more == finalizer.idx < Len(finalizer.required)
       IN /\ repo' = b.repo
          /\ finalizer' =
               [finalizer EXCEPT
                  !.pc = IF more THEN "loop" ELSE "summary",
                  !.idx = @ + 1,
                  !.already_merged =
                     IF b.outcome = "already_merged" THEN Append(@, branch) ELSE @,
                  !.merged_now = IF b.outcome = "merged_now" THEN Append(@, branch) ELSE @,
                  !.failed_merges =
                     IF b.outcome \in {"failed", "conflict"} THEN Append(@, branch) ELSE @,
                  !.conflicted = IF b.outcome = "conflict" THEN Append(@, branch) ELSE @]
          /\ last' = Step("_finalize_merge", b.cmds,
                          IF b.outcome = "conflict" THEN <<"warning:Merge Conflict">>
                          ELSE <<>>)
  /\ UNCHANGED <<gui_vars, conflict_vars, task_ids_txt, required_branches_txt,
                 check_worker, merge_worker, push_worker>>

\* The summary of _finalize_merge (gui.py 455-477).
finalize_merge_summary ==
  /\ finalizer.pc = "summary"
  /\ finalizer' = [IdleRun EXCEPT !.pc = "recheck"]
  /\ buttons' = IF finalizer.failed_merges = <<>>
                THEN [buttons EXCEPT !.push_changes = TRUE] ELSE buttons
  /\ last' = Step("_finalize_merge", <<>>,
                  <<IF finalizer.failed_merges = <<>> THEN "info:Merge Summary"
                    ELSE "warning:Merge Summary">>)
  /\ UNCHANGED <<git_manager, pdf_file, pdf_selections, conflict_vars, task_ids_txt,
                 required_branches_txt, repo, check_worker, merge_worker, push_worker>>

\* The end of complete_resolve (gui.py 357-358, 373):
\* check_branches(from_resolve=True) starts _check_branches without
\* disabling any button.
complete_resolve_recheck ==
  /\ finalizer.pc = "recheck"
  /\ check_worker.pc = "idle"
  /\ finalizer' = IdleRun
  /\ check_worker' = [IdleCheck EXCEPT !.pc = "start"]
  /\ last' = Step("complete_resolve", <<>>,
                  <<"error:Failed to abort merge: No conflict branch specified.">>)
  /\ UNCHANGED <<gui_vars, conflict_vars, task_ids_txt, required_branches_txt, repo,
                 merge_worker, push_worker>>

\* ------------------------------------------------------------ push
\* push_changes: the 'Push Changes' button.
push_changes ==
  /\ MainThreadFree
  /\ buttons.push_changes
  /\ push_worker.pc = "idle"
  /\ buttons' = AllDisabled
  /\ push_worker' = [pc |-> "run"]
  /\ last' = Step("push_changes", <<>>, <<>>)
  /\ UNCHANGED <<git_manager, pdf_file, pdf_selections, conflict_vars, task_ids_txt,
                 required_branches_txt, repo, check_worker, merge_worker, finalizer>>

\* What 'git rev-parse --abbrev-ref <branch>@{u}' can answer: the name of
\* the upstream, or a failure (no upstream configured, or any other error).
UpstreamProbes ==
  { [ok |-> TRUE, out |-> <<ORIGIN>> \o MAIN], [ok |-> FALSE, out |-> <<>>] }

\* has_upstream that answers True whatever the probe says.
has_upstream_always_true(probe) == TRUE

\* has_upstream: True for a non-empty answer, False for an empty one and for
\* a failed probe.
has_upstream(probe) == IF probe.ok THEN probe.out # <<>> ELSE FALSE

\* GitManager.push_changes: the commands it issues, in order.
git_push_changes(r, probe, push_ok) ==
  LET by == "_push_changes"
      current_branch == get_current_branch(r)
  IN <<Cmd(by, "rev-parse HEAD", None, TRUE),
       Cmd(by, "rev-parse @{u}", current_branch, probe.ok)>>
       \o (IF has_upstream(probe)
           THEN <<Cmd(by, "push", None, push_ok)>>
           ELSE <<Cmd(by, "push --set-upstream", current_branch, push_ok)>>)

\* _push_changes with GitManager.push_changes.  enable_all_buttons does not
\* exist, so the finally clause raises and enables nothing.  With HEAD
\* detached git refuses both the upstream probe ("HEAD does not point to a
\* branch") and the push of the unqualified destination HEAD.
push_changes_run ==
  /\ push_worker.pc = "run"
  /\ push_worker' = [pc |-> "idle"]
  /\ \E probe \in UpstreamProbes, push_ok \in BOOLEAN :
       /\ repo.HEAD = None => ~probe.ok /\ ~push_ok
       /\ buttons' = IF push_ok THEN buttons ELSE [buttons EXCEPT !.push_changes = TRUE]
       /\ last' = Step("_push_changes", git_push_changes(repo, probe, push_ok),
                       <<IF push_ok THEN "info:Successfully pushed"
                         ELSE "error:Failed to push changes">>)
  /\ UNCHANGED <<git_manager, pdf_file, pdf_selections, conflict_vars, task_ids_txt,
                 required_branches_txt, repo, check_worker, merge_worker, finalizer>>

\* ------------------------------------------------------------ specification
\* Clones with main checked out, and one clone with HEAD detached at the
\* tip of main.
InitialRepos ==
  { [refs_heads |-> {MAIN} \cup H, refs_remotes |-> {MAIN} \cup Branches,
     merged |-> {MAIN} \cup M, MERGE_HEAD |-> None, HEAD |-> MAIN] :
      H \in SUBSET {F1}, M \in SUBSET {F10, ODD} }
    \cup { [refs_heads |-> {MAIN}, refs_remotes |-> {MAIN} \cup Branches,
            merged |-> {MAIN}, MERGE_HEAD |-> None, HEAD |-> None] }

Init ==
  /\ git_manager = FALSE
  /\ pdf_file = FALSE
  /\ pdf_selections = 0
  /\ buttons = AllDisabled
  /\ has_conflict_attrs = FALSE
  /\ conflict_occurred = FALSE
  /\ current_conflict_branch = None
  /\ task_ids_txt = [exists |-> FALSE, lines |-> <<>>]
  /\ required_branches_txt = [exists |-> FALSE, lines |-> <<>>]
  /\ repo \in InitialRepos
  /\ check_worker = IdleCheck
  /\ merge_worker = IdleRun
  /\ push_worker = [pc |-> "idle"]
  /\ finalizer = IdleRun
  /\ last = Step("__init__", <<>>, <<>>)

Next ==
  \/ select_source_code
  \/ select_pdf
  \/ check_branches
  \/ check_branches_start
  \/ check_branches_scan
  \/ check_branches_write
  \/ merge_branches
  \/ merge_branches_start
  \/ merge_branches_loop
  \/ merge_branches_summary
  \/ complete_resolve
  \/ finalize_merge_loop
  \/ finalize_merge_summary
  \/ complete_resolve_recheck
  \/ push_changes
  \/ push_changes_run

Spec == Init /\ [][Next]_vars

TypeOK ==
  /\ git_manager \in BOOLEAN
  /\ buttons \in [check_branches : BOOLEAN, merge : BOOLEAN,
                  complete_resolve : BOOLEAN, push_changes : BOOLEAN]
  /\ merge_worker.pc \in {"idle", "start", "loop", "summary"}
  /\ finalizer.pc \in {"idle", "loop", "summary", "recheck"}
  /\ check_worker.pc \in {"idle", "start", "scan", "write"}

\* complete_resolve invoked as a method while its button is disabled.
complete_resolve_call ==
  /\ MainThreadFree
  /\ ~buttons.complete_resolve
  /\ CompleteResolveBody

NextCalls == Next \/ complete_resolve_call

\* The workflow with complete_resolve also callable directly.
SpecCalls == Init /\ [][NextCalls]_vars

\* ------------------------------------------------------------ properties
\* The last step issued a merge command that failed.
MergeFailed(l) == \E i \in 1..Len(l.cmds) : l.cmds[i].op = "merge" /\ ~l.cmds[i].ok

\* The last step issued a merge command that git refused with a conflict:
\* the repository is now in the middle of merging that branch.
MergeConflicted(l, r) ==
  \E i \in 1..Len(l.cmds) :
    /\ l.cmds[i].op = "merge"
    /\ ~l.cmds[i].ok
    /\ r.MERGE_HEAD # None
    /\ ResolveRef(r, l.cmds[i].ref) = r.MERGE_HEAD

\* The step is an iteration of the loop of _merge_branches.
MergeLoopStep == merge_worker.pc = "loop" /\ merge_worker' # merge_worker

\* The step is an iteration of the loop of _finalize_merge.
FinalizeLoopStep == finalizer.pc = "loop" /\ finalizer' # finalizer

\* The part of a list after the first occurrence of b (the whole list when
\* b is not in it).
RECURSIVE After(_, _)
After(list, b) ==
  IF b \notin Range(list) THEN list
  ELSE IF Head(list) = b THEN Tail(list)
  ELSE After(Tail(list), b)

\* C1: in every run, initial or resumed, at most one branch ends up
\* conflicted: once a merge of the run has failed, the run does not go on to
\* another pending branch.
C1_OneConflictPerRun ==
  /\ (last.by = "_merge_branches" /\ MergeConflicted(last, repo))
        => merge_worker.pc # "loop"
  /\ (last.by = "_finalize_merge" /\ MergeConflicted(last, repo))
        => finalizer.pc # "loop"

\* C2: while a run is under way, no branch it has already classified as
\* AlreadyMerged, MergedNow or NotFound is still listed in
\* required_branches.txt.
C2_ResolvedBranchesPruned ==
  /\ merge_worker.pc \in {"loop", "summary"} =>
       \A b \in Range(merge_worker.already_merged) \cup Range(merge_worker.merged_now)
                  \cup Range(merge_worker.failed_merges) :
          b \notin Range(ReadLines(required_branches_txt))
  /\ finalizer.pc \in {"loop", "summary"} =>
       \A b \in Range(finalizer.already_merged) \cup Range(finalizer.merged_now) :
          b \notin Range(ReadLines(required_branches_txt))

\* C3: the pending sequence a resume starts with is exactly what follows the
\* conflict branch in the required-branch list, in order.
C3_ResumeTakesRemainder ==
  [][ (finalizer.pc = "idle" /\ finalizer'.pc \in {"loop", "summary"})
        => finalizer'.required
             = After(ReadLines(required_branches_txt), current_conflict_branch) ]_vars

\* C4: a merge that fails in the resumed run puts the workflow back into the
\* conflict-paused state with that branch recorded and the finalizer
\* available.
C4_ResumeConflictPausesAgain ==
  (last.by = "_finalize_merge" /\ MergeConflicted(last, repo)) =>
    /\ has_conflict_attrs
    /\ conflict_occurred
    /\ current_conflict_branch = finalizer.conflicted[Len(finalizer.conflicted)]
    /\ buttons.complete_resolve

\* The last step was complete_resolve failing to stage or to commit.
ResolveFailed(l) ==
  /\ l.by = "complete_resolve"
  /\ \E i \in 1..Len(l.cmds) : l.cmds[i].op \in {"add", "commit"} /\ ~l.cmds[i].ok

\* C5: a failed stage or commit in complete_resolve leaves the conflict
\* state, the pending branches and the merge in progress as they were, and
\* reports the failure.
C5_FailedResolveKeepsMerge ==
  [][ (MainThreadFree /\ ResolveFailed(last') /\ repo.MERGE_HEAD # None)
        => /\ UNCHANGED <<conflict_vars, required_branches_txt>>
           /\ repo'.MERGE_HEAD = repo.MERGE_HEAD
           /\ last'.reports # <<>> ]_vars

\* C6: complete_resolve invoked with no conflict outstanding, before any
\* conflict or after one was resolved, reports and does nothing else: it
\* issues no git command and changes neither the conflict state, the files,
\* the repository, the buttons nor any running operation.
C6_ResolveWithoutConflictIsNoOp ==
  [][ ( /\ MainThreadFree
        /\ last'.by = "complete_resolve"
        /\ (~has_conflict_attrs \/ ~conflict_occurred \/ current_conflict_branch = None) )
        => /\ last'.cmds = <<>>
           /\ last'.reports # <<>>
           /\ UNCHANGED <<gui_vars, conflict_vars, task_ids_txt, required_branches_txt,
                          repo, check_worker, merge_worker, push_worker, finalizer>> ]_vars

\* complete_resolve was invoked after a conflict had been resolved.
C6_Witness ==
  /\ has_conflict_attrs
  /\ ~conflict_occurred
  /\ last.by = "complete_resolve"
  /\ last.reports = <<"info:No merge conflicts to resolve.">>

\* Every branch of the list is merged into the current branch, by its local
\* or by its remote-tracking ref.
AllMergedByAnyRef(list) ==
  \A b \in Range(list) :
    b \in repo.merged /\ (b \in repo.refs_heads \/ b \in repo.refs_remotes)

\* Every branch of the list has a local ref that is merged into the current
\* branch.
AllMergedByLocalRef(list) ==
  \A b \in Range(list) : b \in repo.merged /\ b \in repo.refs_heads

\* A loop step of the run leaves the repository alone, issues no merge and no
\* fetch, and classifies its branch as already merged.
SkipsBranch(run) ==
  /\ repo' = repo
  /\ Ops(last') \cap {"merge", "fetch"} = {}
  /\ run'.merged_now = <<>>
  /\ run'.failed_merges = <<>>
  /\ Len(run'.already_merged) = Len(run.already_merged) + 1
  /\ run'.pc \in {"loop", "summary"}

InFlight ==
  {w \in {"check"} : check_worker.pc # "idle"}
    \cup {w \in {"merge"} : merge_worker.pc # "idle"}
    \cup {w \in {"push"} : push_worker.pc # "idle"}
    \cup {w \in {"finalize"} : finalizer.pc # "idle"}

\* C8: at most one repository operation is in flight at any time.
C8_AtMostOneInFlight == Cardinality(InFlight) <= 1

\* get_matching_branches run over the whole scan with one merged-branch set.
RECURSIVE ScanAll(_, _, _)
ScanAll(todo, acc, merged_branches) ==
  IF todo = <<>> THEN acc
  ELSE ScanAll(Tail(todo), ScanItem(acc, Head(todo), merged_branches), merged_branches)

\* C9: the result of a resolution is the one a single snapshot of the merged
\* branches gives, whatever happens to the repository during the scan.
C9_SingleSnapshot ==
  (check_worker.pc = "write" /\ check_worker.seen # {}) =>
    \E m \in check_worker.seen :
      ScanAll(check_worker.todo,
              [required |-> {},
               task_branch_map |-> [t \in Range(check_worker.task_ids) |-> <<>>]], m)
        = [required |-> check_worker.required,
           task_branch_map |-> check_worker.task_branch_map]

\* The remote-tracking prefix stripped from a remote branch name.
StripRemotePrefix(name) ==
  IF name # <<>> /\ Head(name) = ORIGIN THEN Tail(name) ELSE name

\* The entry C10 claims for task t: in listing order, the prefix-stripped
\* names of the remote branches that contain t and are not merged.
ClaimedEntry(t, remote_branches, merged_branches) ==
  SelectSeq(MapSeq(SelectSeq(remote_branches, LAMBDA n : Contains(n, t)),
                   StripRemotePrefix),
            LAMBDA b : b \notin merged_branches)

\* C10: with one merged-branch set m throughout, the map entry of every task
\* is ClaimedEntry and the required set is the union of the entries.
C10_ResolutionResult ==
  (check_worker.pc = "write" /\ Cardinality(check_worker.seen) = 1) =>
    LET m == CHOOSE x \in check_worker.seen : TRUE
    IN /\ check_worker.task_branch_map =
            [t \in Range(check_worker.task_ids) |->
               ClaimedEntry(t, check_worker.remote_branches, m)]
       /\ check_worker.required =
            UNION { Range(check_worker.task_branch_map[t]) :
                      t \in Range(check_worker.task_ids) }

\* The step is one iteration of the inner loop of get_matching_branches.
ScanStep == check_worker.pc = "scan" /\ check_worker' # check_worker

\* The remote-tracking branch a match of 'git branch -r' names is merged into
\* the current branch.
MatchIsMerged(r, m) ==
  /\ ResolveRef(r, Strip(m)) # None
  /\ ResolveRef(r, Strip(m)) \in r.merged

\* C11: during and after a resolution the map has exactly the task
\* identifiers of the input as keys; a task whose identifier occurs in no
\* remote branch name has the empty entry, and a match that is already merged
\* adds nothing to the entry of its task.
C11_KeyForEveryTask ==
  [][ /\ check_worker'.pc \in {"scan", "write"} =>
           /\ DOMAIN check_worker'.task_branch_map = Range(check_worker'.task_ids)
           /\ \A t \in Range(check_worker'.task_ids) :
                matching_branches(check_worker'.remote_branches, t) = <<>>
                  => check_worker'.task_branch_map[t] = <<>>
      /\ (ScanStep /\ MatchIsMerged(repo, check_worker.todo[check_worker.pos].branch))
           => check_worker'.task_branch_map = check_worker.task_branch_map ]_vars

\* C12: when an orchestration run is about to start, the ancestor check
\* answers true for every name get_merged_branches returns.
C12_MergedListIsAncestor ==
  merge_worker.pc = "start" =>
    \A b \in get_merged_branches(repo) :
      is_branch_merged(repo, b, get_current_branch(repo))

\* The positions of the push commands among the commands of a step.
PushCommands(l) ==
  { i \in 1..Len(l.cmds) : l.cmds[i].op \in {"push", "push --set-upstream"} }

\* The last step was _push_changes and its upstream probe answered ok.
PushedAfterProbe(l, ok) ==
  /\ l.by = "_push_changes"
  /\ \E i \in 1..Len(l.cmds) : l.cmds[i].op = "rev-parse @{u}" /\ l.cmds[i].ok = ok

\* C13: one call of push_changes issues exactly one push command, after the
\* upstream probe: plain 'push' when the probe names an upstream, and
\* 'push --set-upstream origin <current>' when the probe fails.
C13_PushOnce ==
  last.by = "_push_changes" =>
    /\ Cardinality(PushCommands(last)) = 1
    /\ \A i \in PushCommands(last) :
         /\ PushedAfterProbe(last, TRUE) => last.cmds[i].op = "push"
         /\ PushedAfterProbe(last, FALSE) =>
              /\ last.cmds[i].op = "push --set-upstream"
              /\ last.cmds[i].ref = get_current_branch(repo)
         /\ \E k \in 1..(i - 1) : last.cmds[k].op = "rev-parse @{u}"

\* A push was made from a branch whose upstream probe failed.
C13_Witness ==
  /\ PushedAfterProbe(last, FALSE)
  /\ PushCommands(last) # {}

\* The run was started by a commit that resolved the last branch of its
\* list: nothing is pending after the resolved branch.
NothingPending(run) ==
  /\ run.resolved # None
  /\ After(run.required, run.resolved) = <<>>

\* The step ends _finalize_merge.
FinalizeEnds == finalizer.pc # "recheck" /\ finalizer'.pc = "recheck"

\* C14: after a successful commit of the conflict on the last pending branch
\* the workflow completes: the resumed run issues no merge command, and when
\* it ends no conflict is outstanding and 'Push Changes' is enabled.
C14_ResolvedLastCompletes ==
  [][ /\ (FinalizeLoopStep /\ NothingPending(finalizer)) => "merge" \notin Ops(last')
      /\ ( /\ FinalizeEnds
           /\ NothingPending(IF finalizer.pc = "idle" THEN finalizer' ELSE finalizer) )
           => /\ buttons'.push_changes
              /\ ~conflict_occurred'
              /\ repo'.MERGE_HEAD = None ]_vars

\* The step showed an outcome summary.
SummaryShown(l) ==
  \E i \in 1..Len(l.reports) :
    l.reports[i] \in {"info:Merge Summary", "warning:Merge Summary"}

\* C15 as claimed: a run started with 'Merge' that pauses on a conflict
\* shows the outcome summary.
C15_PauseProducesSummary ==
  (last.by = "_merge_branches" /\ MergeConflicted(last, repo)) => SummaryShown(last)

\* C15 amended: a run started with 'Merge' whose merge command fails shows
\* the conflict warning and nothing else, records the branch as the conflict
\* branch and returns; the summary is shown only by a run that has processed
\* its whole list.
C15_PauseShowsConflictOnly ==
  [][ /\ (MergeLoopStep /\ MergeFailed(last')) =>
           /\ last'.reports = <<"warning:Merge Conflict">>
           /\ conflict_occurred'
           /\ current_conflict_branch' = merge_worker.required[merge_worker.idx]
           /\ merge_worker'.pc = "idle"
      /\ (last'.by = "_merge_branches" /\ last' # last /\ SummaryShown(last')) =>
           /\ merge_worker.pc = "summary"
           /\ ~MergeFailed(last') ]_vars

\* A run paused on a conflict on the second branch of its list, the first
\* one being merged.
C15_Witness ==
  /\ last.by = "_merge_branches"
  /\ MergeConflicted(last, repo)
  /\ Len(ReadLines(required_branches_txt)) = 2
  /\ current_conflict_branch = ReadLines(required_branches_txt)[2]
  /\ ReadLines(required_branches_txt)[1] \in repo.merged

\* C16: the run resumed after a successful commit issues no command
\* (existence check, fetch, ancestor check, merge) for the branch whose
\* conflict that commit resolved.
C16_ResolvedBranchSkipped ==
  [][ (FinalizeLoopStep /\ finalizer.resolved # None) =>
        \A i \in 1..Len(last'.cmds) :
          last'.cmds[i].ref \notin {finalizer.resolved, <<ORIGIN>> \o finalizer.resolved} ]_vars

\* The branch has a ref, local or remote-tracking, and its tip is an
\* ancestor of the current branch.
AlreadyAncestor(r, b) ==
  /\ b \in r.refs_heads \cup r.refs_remotes
  /\ b \in r.merged

\* The loop step of the run classifies its branch as already merged and
\* issues no merge command.
ClassifiesAlreadyMerged(run) ==
  /\ "merge" \notin Ops(last')
  /\ run'.already_merged = Append(run.already_merged, run.required[run.idx])
  /\ run'.merged_now = run.merged_now

\* C17: a branch whose local or remote-tracking ref is an ancestor of the
\* current branch when the run reaches it is classified AlreadyMerged, and no
\* merge command is issued for it.
C17_NoMergeOfAncestor ==
  [][ /\ (MergeLoopStep /\ AlreadyAncestor(repo, merge_worker.required[merge_worker.idx]))
           => ClassifiesAlreadyMerged(merge_worker)
      /\ (FinalizeLoopStep /\ AlreadyAncestor(repo, finalizer.required[finalizer.idx]))
           => ClassifiesAlreadyMerged(finalizer) ]_vars

\* The branch resolves neither as a local nor as a remote-tracking ref.
Unresolvable(r, b) == ~show_ref_heads(r, b) /\ ~show_ref_remotes(r, b)

\* The loop step of the run records its branch as not found and goes on: no
\* fetch, no merge, no change of the repository or of the conflict state,
\* and the run moves to the next branch or, after the last one, to the
\* summary.
RecordsNotFound(run) ==
  /\ Ops(last') \cap {"fetch", "merge"} = {}
  /\ run'.failed_merges = Append(run.failed_merges, run.required[run.idx])
  /\ run'.already_merged = run.already_merged
  /\ run'.merged_now = run.merged_now
  /\ run'.idx = run.idx + 1
  /\ run'.pc = IF run.idx < Len(run.required) THEN "loop" ELSE "summary"
  /\ UNCHANGED <<conflict_vars, repo, buttons>>

C19_FalseMeansNotAncestor ==
  merge_worker.pc = "loop" =>
    LET branch == merge_worker.required[merge_worker.idx]
    IN ~is_branch_merged(repo, branch, get_current_branch(repo)) =>
         /\ ResolveRef(repo, branch) # None
         /\ ResolveRef(repo, branch) \notin repo.merged

\* The step issued a fetch of a single branch that failed.
FetchFailed(l) == \E i \in 1..Len(l.cmds) : l.cmds[i].op = "fetch" /\ ~l.cmds[i].ok

\* The loop step of the run stops at the failure: no merge command, no
\* outcome recorded for the branch, repository and conflict state unchanged,
\* and the failure reported.
AbortsStep(run) ==
  /\ "merge" \notin Ops(last')
  /\ run'.already_merged = run.already_merged
  /\ run'.merged_now = run.merged_now
  /\ run'.failed_merges = run.failed_merges
  /\ UNCHANGED <<conflict_vars, repo>>
  /\ last'.reports # <<>>

\* C20: when the fetch of a remote-only branch fails, the run issues no merge
\* for that branch, records no outcome for it, leaves the repository and the
\* conflict state unchanged and reports the failure.
C20_FetchFailureAborts ==
  [][ /\ (MergeLoopStep /\ FetchFailed(last')) => AbortsStep(merge_worker)
      /\ (FinalizeLoopStep /\ FetchFailed(last')) => AbortsStep(finalizer) ]_vars

\* C21: a merge command of the initial run that fails without leaving the
\* repository in a conflicted merge is an ordinary command failure: it is
\* reported, and it neither sets the conflict flag, nor records a conflict
\* branch, nor enables 'Complete Resolve'.
C21_OnlyConflictPauses ==
  [][ (MergeLoopStep /\ MergeFailed(last') /\ ~MergeConflicted(last', repo')) =>
        /\ UNCHANGED conflict_vars
        /\ buttons'.complete_resolve = buttons.complete_resolve
        /\ last'.reports # <<>> ]_vars

\* The outcome lists of a run keep not-found and conflicted branches apart:
\* no list of the report holds a branch that was not found together with a
\* branch whose merge failed, and no branch is in two lists.
KindsApart(run) ==
  /\ Range(run.already_merged) \cap Range(run.merged_now) = {}
  /\ Range(run.already_merged) \cap Range(run.failed_merges) = {}
  /\ Range(run.merged_now) \cap Range(run.failed_merges) = {}
  /\ ~ /\ Range(run.failed_merges) \cap Range(run.conflicted) # {}
       /\ Range(run.failed_merges) \ Range(run.conflicted) # {}

\* C22: in a run and in a finalization every processed branch is under one
\* outcome, and branches that were not found are never reported under the
\* same outcome as branches whose merge conflicted.
C22_FourOutcomesApart == KindsApart(merge_worker) /\ KindsApart(finalizer)

\* Every command of the step that names a branch is about branch b.
CommandsAbout(l, b) ==
  \A i \in 1..Len(l.cmds) : l.cmds[i].ref \in {None, b, <<ORIGIN>> \o b}

\* The loop step of the run works on the branch at its position and on no
\* other, keeps the list, and moves on by one position unless the run ends.
InOrderStep(run) ==
  /\ CommandsAbout(last', run.required[run.idx])
  /\ run'.pc # "idle" => (run'.required = run.required /\ run'.idx = run.idx + 1)

\* C23: a run takes its list from required_branches.txt in file order,
\* starts with the first branch, and each loop step issues commands for the
\* branch at the current position only and then moves to the next position.
C23_FileOrder ==
  [][ /\ (merge_worker.pc = "start" /\ merge_worker'.pc = "loop") =>
           /\ merge_worker'.required = required_branches_txt.lines
           /\ merge_worker'.idx = 1
      /\ (finalizer.pc = "idle" /\ finalizer'.pc = "loop") =>
           /\ finalizer'.required = required_branches_txt.lines
           /\ finalizer'.idx = 1
      /\ MergeLoopStep => InOrderStep(merge_worker)
      /\ FinalizeLoopStep => InOrderStep(finalizer) ]_vars

\* A run has gone through a list of two branches in file order.
C23_Witness ==
  /\ merge_worker.pc = "summary"
  /\ merge_worker.idx = 3
  /\ merge_worker.required = required_branches_txt.lines
  /\ Len(merge_worker.merged_now) + Len(merge_worker.failed_merges) >= 1

\* C24: when a merge of the initial run fails, the failed merge is the last
\* command of the run: the thread returns without aborting, staging,
\* committing or fetching, what is merged stays as it was, and after a
\* conflict the repository is left in the middle of merging that branch.
C24_StopsAtConflict ==
  [][ (MergeLoopStep /\ MergeFailed(last')) =>
        /\ merge_worker'.pc = "idle"
        /\ last'.cmds[Len(last'.cmds)].op = "merge"
        /\ ~last'.cmds[Len(last'.cmds)].ok
        /\ Ops(last') \cap {"merge --abort", "add", "commit"} = {}
        /\ repo'.merged = repo.merged
        /\ MergeConflicted(last', repo') =>
             repo'.MERGE_HEAD = merge_worker.required[merge_worker.idx] ]_vars

\* The initial run has just stopped at a conflict on its first branch, with
\* more branches left in its list.
C24_Witness ==
  /\ last.by = "_merge_branches"
  /\ MergeConflicted(last, repo)
  /\ merge_worker.pc = "idle"
  /\ Len(ReadLines(required_branches_txt)) = 2
  /\ current_conflict_branch = ReadLines(required_branches_txt)[1]
  /\ repo.MERGE_HEAD = current_conflict_branch

\* The merge commands of a step.
MergeCommands(l) == { i \in 1..Len(l.cmds) : l.cmds[i].op = "merge" }

\* C25 as claimed: every merge is --no-ff and its message names the branch
\* as the required-branch list has it, without remote prefix, also when the
\* remote-tracking ref is merged.
C25_MessageNamesListedBranch ==
  \A i \in MergeCommands(last) :
    /\ last.cmds[i].no_ff
    /\ last.cmds[i].msg =
         <<"Merge branch '">> \o StripRemotePrefix(last.cmds[i].ref)
           \o <<"' into '">> \o get_current_branch(repo) \o <<"'">>

\* C25 amended: every merge is --no-ff and its message names the ref that is
\* merged: the listed name for a local branch, and 'origin/' followed by the
\* listed name when the initial run merges a remote-tracking ref.
C25_MessageNamesMergedRef ==
  [][ /\ \A i \in MergeCommands(last') :
           /\ last'.cmds[i].no_ff
           /\ last'.cmds[i].msg =
                <<"Merge branch '">> \o last'.cmds[i].ref
                  \o <<"' into '">> \o get_current_branch(repo) \o <<"'">>
      /\ MergeLoopStep =>
           \A i \in MergeCommands(last') :
             last'.cmds[i].ref =
               IF show_ref_heads(repo, merge_worker.required[merge_worker.idx])
               THEN merge_worker.required[merge_worker.idx]
               ELSE <<ORIGIN>> \o merge_worker.required[merge_worker.idx]
      /\ FinalizeLoopStep =>
           \A i \in MergeCommands(last') :
             last'.cmds[i].ref = finalizer.required[finalizer.idx] ]_vars

\* A remote-tracking ref has just been merged successfully.
C25_Witness ==
  \E i \in MergeCommands(last) :
    /\ last.cmds[i].ok
    /\ Head(last.cmds[i].ref) = ORIGIN
    /\ last.cmds[i].msg =
         <<"Merge branch '", ORIGIN>> \o Tail(last.cmds[i].ref)
           \o <<"' into '">> \o MAIN \o <<"'">>

\* s starts with pre.
HasPrefix(s, pre) == Len(s) >= Len(pre) /\ SubSeq(s, 1, Len(pre)) = pre

\* C26: no name returned by get_merged_branches carries the prefix
\* 'remotes/origin/' or 'origin/' or the marker '* ', and a merged branch
\* that is listed both as a local and as a remote-tracking branch is returned
\* once, under its bare name.
C26_MergedNamesNormalized ==
  /\ \A n \in get_merged_branches(repo) :
       /\ ~HasPrefix(n, <<REMOTES, ORIGIN>>)
       /\ ~HasPrefix(n, <<ORIGIN>>)
       /\ ~HasPrefix(n, <<STAR>>)
  /\ \A b \in repo.merged \cap repo.refs_heads \cap repo.refs_remotes :
       get_merged_branches(repo)
         \cap {b, <<ORIGIN>> \o b, <<REMOTES, ORIGIN>> \o b, <<STAR>> \o b} = {b}

\* C27: with HEAD detached, resolving the current branch fails, so no step
\* of a merge run, of a finalization or of a push issues a merge or a push
\* command.
C27_DetachedHeadIssuesNothing ==
  repo.HEAD = None =>
    Ops(last) \cap {"merge", "push", "push --set-upstream"} = {}

\* A conflict is outstanding: the conflict flag is set and the conflicting
\* branch is recorded.
ConflictOutstanding ==
  has_conflict_attrs /\ conflict_occurred /\ current_conflict_branch # None

\* No thread of the tool is at work.
AllIdle ==
  /\ check_worker.pc = "idle"
  /\ merge_worker.pc = "idle"
  /\ push_worker.pc = "idle"
  /\ finalizer.pc = "idle"

\* C28: while a conflict is outstanding the finalizer action stays
\* available, whatever front-end actions (selecting a PDF or a source
\* directory, re-running the branch check) were taken in between: once the
\* tool is at rest the operator can complete the paused merge.
C28_FinalizerStaysAvailable ==
  ConflictOutstanding /\ AllIdle => buttons.complete_resolve

\* While the push action is enabled no conflict is outstanding and the
\* repository is not in the middle of a merge.
NoPushMidMerge ==
  buttons.push_changes => ~ConflictOutstanding /\ repo.MERGE_HEAD = None

\* The step is the summary of a run or of a finalization in which no branch
\* failed, was not found or conflicted.
CleanEnd ==
  \/ /\ merge_worker.pc = "summary" /\ merge_worker'.pc = "idle"
     /\ merge_worker.failed_merges = <<>> /\ merge_worker.conflicted = <<>>
  \/ /\ finalizer.pc = "summary" /\ finalizer'.pc = "recheck"
     /\ finalizer.failed_merges = <<>> /\ finalizer.conflicted = <<>>

\* The push action becomes enabled only by such a step.
EnabledOnlyAtCleanEnd ==
  [][~buttons.push_changes /\ buttons'.push_changes => CleanEnd]_vars

\* C29: push is never permitted while a merge is unfinished: whenever the
\* push action is enabled no conflict is outstanding and the repository is
\* not mid-merge, and the push action becomes enabled only at the end of a
\* run or finalization in which no branch was not found or conflicted.
C29_PushOnlyAfterCleanMerge == []NoPushMidMerge /\ EnabledOnlyAtCleanEnd

\* The threads of an orchestration run are scheduled until they return:
\* every git command returns, so a started _merge_branches and a started
\* _finalize_merge take their next step.
SpecFair ==
  /\ Spec
  /\ WF_vars(merge_branches_start)
  /\ WF_vars(merge_branches_loop)
  /\ WF_vars(merge_branches_summary)
  /\ WF_vars(finalize_merge_loop)
  /\ WF_vars(finalize_merge_summary)

\* Every started run of _merge_branches and of _finalize_merge returns.
RunsTerminate ==
  /\ (merge_worker.pc # "idle") ~> (merge_worker.pc = "idle")
  /\ (finalizer.pc \in {"loop", "summary"}) ~> (finalizer.pc \in {"recheck", "idle"})

\* The run has classified every branch of its list.
AllClassified(run) ==
  Len(run.already_merged) + Len(run.merged_now) + Len(run.failed_merges)
    = Len(run.required)

\* The step ends the run in Completed: every branch is classified, the
\* summary is produced and no conflict is outstanding.
EndsCompleted(run) ==
  /\ run.pc = "summary"
  /\ AllClassified(run)
  /\ SummaryShown(last')
  /\ ~ConflictOutstanding'

\* The step ends the run in ConflictPaused: the conflict flag is set and
\* the branch whose merge failed in this step is recorded.
EndsConflictPaused(run) ==
  /\ run.pc = "loop"
  /\ ConflictOutstanding'
  /\ current_conflict_branch' = run.required[run.idx]

\* A run over a non-empty list ends in exactly one of the two states.
EndsInOneOfTwo ==
  [][ /\ merge_worker.pc \in {"loop", "summary"} /\ merge_worker'.pc = "idle" =>
          EndsCompleted(merge_worker) # EndsConflictPaused(merge_worker)
      /\ finalizer.pc \in {"loop", "summary"} /\ finalizer'.pc \in {"recheck", "idle"} =>
          EndsCompleted(finalizer) # EndsConflictPaused(finalizer) ]_vars

\* C30: every orchestration run over a finite required-branch list
\* terminates, and it ends in exactly one of two states: Completed (all
\* branches classified, summary produced, no conflict outstanding) or
\* ConflictPaused (conflict flag set with the conflicting branch recorded).
C30_RunEndsCompletedOrPaused == RunsTerminate /\ EndsInOneOfTwo

\* ------------------------------------------------ a cooperative environment
\* No command of the step fails for a reason outside the tool: fetch, add,
\* commit and push succeed, and a merge fails only with a conflict, on a
\* name git cannot resolve, or because a merge is already in progress.  A
\* push from a detached HEAD is refused by git whatever the remote does.
CommandsSucceed ==
  \A i \in 1..Len(last'.cmds) :
    LET c == last'.cmds[i]
    IN /\ c.op \in {"fetch", "fetch --all", "add", "commit"} => c.ok
       /\ c.op \in {"push", "push --set-upstream"} => c.ok \/ repo.HEAD = None
       /\ c.op = "merge" /\ ~c.ok =>
            \/ repo.MERGE_HEAD # None
            \/ repo'.MERGE_HEAD # None
            \/ ResolveRef(repo', c.ref) = None

\* After a pause the operator's next action is 'Complete Resolve': no other
\* front-end action is taken while a conflict is outstanding.
OperatorResumes == ~ConflictOutstanding

NextCommandsSucceed ==
  \/ select_source_code /\ OperatorResumes /\ CommandsSucceed
  \/ select_pdf /\ OperatorResumes /\ CommandsSucceed
  \/ check_branches /\ OperatorResumes /\ CommandsSucceed
  \/ check_branches_start /\ CommandsSucceed
  \/ check_branches_scan /\ CommandsSucceed
  \/ check_branches_write /\ CommandsSucceed
  \/ merge_branches /\ OperatorResumes /\ CommandsSucceed
  \/ merge_branches_start /\ CommandsSucceed
  \/ merge_branches_loop /\ CommandsSucceed
  \/ merge_branches_summary /\ CommandsSucceed
  \/ complete_resolve /\ CommandsSucceed
  \/ finalize_merge_loop /\ CommandsSucceed
  \/ finalize_merge_summary /\ CommandsSucceed
  \/ complete_resolve_recheck /\ CommandsSucceed
  \/ push_changes /\ OperatorResumes /\ CommandsSucceed
  \/ push_changes_run /\ CommandsSucceed

\* The workflow when every command succeeds, the threads run until they
\* return, and the operator answers every pause with 'Complete Resolve'.
SpecCommandsSucceed ==
  /\ Init
  /\ [][NextCommandsSucceed]_vars
  /\ WF_vars(merge_branches_start /\ CommandsSucceed)
  /\ WF_vars(merge_branches_loop /\ CommandsSucceed)
  /\ WF_vars(merge_branches_summary /\ CommandsSucceed)
  /\ WF_vars(complete_resolve /\ CommandsSucceed)
  /\ WF_vars(finalize_merge_loop /\ CommandsSucceed)
  /\ WF_vars(finalize_merge_summary /\ CommandsSucceed)

\* The finalization has reached its summary.
FinalizationCompleted == last.by = "_finalize_merge" /\ SummaryShown(last)

\* The tip of b is an ancestor of the current branch.
IsAncestor(r, b) == b \in r.merged /\ b \in r.refs_heads \cup r.refs_remotes

\* b exists neither locally nor on the remote, and the run recorded it so.
ReportedNotFound(r, run, b) ==
  /\ b \notin r.refs_heads \cup r.refs_remotes
  /\ b \in Range(run.failed_merges)

\* When a finalization completes, every branch of the required-branch list
\* is an ancestor of the current branch or was reported not found.
CompletedMeansMerged ==
  [][finalizer.pc = "summary" /\ finalizer'.pc = "recheck" =>
       \A b \in Range(ReadLines(required_branches_txt)) :
         IsAncestor(repo', b) \/ ReportedNotFound(repo', finalizer, b)]_vars

\* C31: when the operator resolves every conflict and runs the finalizer
\* after each pause, and every commit and other command succeeds, the
\* workflow reaches Completed after finitely many resume cycles, and then
\* every branch of the required-branch list is an ancestor of the current
\* branch or was reported not found.
C31_EventualCompletion ==
  /\ ConflictOutstanding ~> FinalizationCompleted
  /\ CompletedMeansMerged

\* The step is the end of _check_branches that writes required_branches.txt.
WriteStep == check_worker.pc = "write" /\ check_worker'.pc = "idle"

\* C32: after the branch check has written the required-branch set, the list
\* read back from required_branches.txt (stripped, blank lines dropped)
\* holds exactly the names of that set, each once, and nothing of an
\* earlier file.
C32_StateFileRoundTrip ==
  [][WriteStep =>
       LET back == ReadLines(required_branches_txt')
       IN /\ Range(back) = check_worker.required
          /\ Len(back) = Cardinality(check_worker.required)]_vars

\* The branch check has just rewritten a file that held f-P3-1 before (the
\* branch was merged by a run over that file) with a non-empty list
\* without it.
C32_Witness ==
  /\ last.by = "_check_branches"
  /\ \E i \in 1..Len(last.reports) : last.reports[i] = "info:Found required branches"
  /\ F1 \in repo.merged
  /\ required_branches_txt.lines # <<>>
  /\ F1 \notin Range(required_branches_txt.lines)

\* ------------------------------------------- remove_branch_from_required
\* The lines a required_branches.txt can hold after manual edits: branch
\* names, a name with surrounding blanks, an empty line and a line of
\* blanks.
FileLines == {F1, F10, <<INDENT>> \o F1 \o <<INDENT>>, <<>>, <<INDENT>>}

RECURSIVE SeqsUpTo(_, _)
SeqsUpTo(S, n) ==
  IF n = 0 THEN { <<>> }
  ELSE LET shorter == SeqsUpTo(S, n - 1)
       IN shorter \cup { Append(s, x) : s \in { t \in shorter : Len(t) = n - 1 }, x \in S }

\* required_branches.txt as remove_branch_from_required can find it.
RequiredFiles ==
  { [exists |-> TRUE, lines |-> l] : l \in SeqsUpTo(FileLines, MaxFileLines) }
    \cup { [exists |-> FALSE, lines |-> <<>>] }

\* remove_branch_from_required dropping the first occurrence only.
remove_branch_from_required_first(branch, file) ==
  [exists |-> TRUE,
   lines |-> RemoveFirst(SelectSeq(MapSeq(file.lines, Strip), LAMBDA l : l # <<>>),
                         branch)]

\* remove_branch_from_required (git_manager.py 229-234): the stripped
\* non-blank lines other than branch, written back one per line.
remove_branch_from_required(branch, file) ==
  [exists |-> TRUE,
   lines |-> SelectSeq(MapSeq(file.lines, Strip),
                       LAMBDA l : l # <<>> /\ l # branch)]

\* A call of remove_branch_from_required.  open() raises when the file is
\* missing; the handler logs and raises again.
remove_branch_from_required_call ==
  \E branch \in Branches :
    LET by == "remove_branch_from_required"
    IN /\ IF required_branches_txt.exists
          THEN /\ required_branches_txt' =
                    remove_branch_from_required(branch, required_branches_txt)
               /\ last' = Step(by, <<Cmd(by, "rewrite", branch, TRUE)>>,
                               <<"log:Removed branch from required_branches.txt">>)
          ELSE /\ required_branches_txt' = required_branches_txt
               /\ last' = Step(by, <<Cmd(by, "rewrite", branch, FALSE)>>,
                               <<"log:Error removing branch", "raise:FileNotFoundError">>)
       /\ UNCHANGED <<gui_vars, conflict_vars, task_ids_txt, repo, check_worker,
                      merge_worker, push_worker, finalizer>>

InitRemove ==
  /\ git_manager = TRUE
  /\ pdf_file = FALSE
  /\ pdf_selections = 0
  /\ buttons = AllDisabled
  /\ has_conflict_attrs = FALSE
  /\ conflict_occurred = FALSE
  /\ current_conflict_branch = None
  /\ task_ids_txt = [exists |-> FALSE, lines |-> <<>>]
  /\ required_branches_txt \in RequiredFiles
  /\ repo \in InitialRepos
  /\ check_worker = IdleCheck
  /\ merge_worker = IdleRun
  /\ push_worker = [pc |-> "idle"]
  /\ finalizer = IdleRun
  /\ last = Step("__init__", <<>>, <<>>)

NextRemove == remove_branch_from_required_call

\* remove_branch_from_required applied, any number of times, to any file.
SpecRemove == InitRemove /\ [][NextRemove]_vars

\* The step is a call of remove_branch_from_required that found the file.
RemoveStep ==
  /\ last'.by = "remove_branch_from_required"
  /\ last'.cmds[1].ok

\* C33 as claimed: the file then holds exactly the previous non-blank lines
\* different from b, in their previous order; no occurrence of b is left;
\* the file is unchanged when b was absent; a second application changes
\* nothing.
C33_RemoveKeepsOtherLines ==
  [][RemoveStep =>
       LET b == last'.cmds[1].ref
           old == required_branches_txt
           new == required_branches_txt'
       IN /\ new.lines = SelectSeq(old.lines, LAMBDA l : Strip(l) # <<>> /\ l # b)
          /\ b \notin Range(new.lines)
          /\ b \notin Range(old.lines) => new = old
          /\ remove_branch_from_required(b, new) = new]_vars

\* C33 amended: the file then holds exactly the previous non-blank lines,
\* stripped, that differ from b after stripping, in their previous order; no
\* occurrence of b is left; when b was absent the stripped non-blank lines
\* are the same as before; a second application changes nothing.
C33_RemoveKeepsOtherLinesStripped ==
  [][RemoveStep =>
       LET b == last'.cmds[1].ref
           old == required_branches_txt
           new == required_branches_txt'
           stripped(f) == SelectSeq(MapSeq(f.lines, Strip), LAMBDA l : l # <<>>)
       IN /\ new.lines = SelectSeq(stripped(old), LAMBDA l : l # b)
          /\ b \notin Range(stripped(new))
          /\ b \notin Range(stripped(old)) => stripped(new) = stripped(old)
          /\ remove_branch_from_required(b, new) = new]_vars

\* remove_branch_from_required has just rewritten the file for f-P3-1, and
\* the line of f-P3-10 is what the file holds.
C33_Witness ==
  /\ last.by = "remove_branch_from_required"
  /\ last.cmds[1].ok
  /\ last.cmds[1].ref = F1
  /\ required_branches_txt.lines = <<F10>>

====
